---- MODULE Spec2Model ----
(***************************************************************************)
(* Model of the ImageToLatexConverter React component                      *)
(* (src/src/components/ImageToLatexConverter.js).                          *)
(*                                                                         *)
(* Strings are sequences of fragments.  A fragment is either one character *)
(* ("4", "a", " ") or a whole literal of the source that is never taken    *)
(* apart ("API request failed: ").  The empty string '' is << >>.  The     *)
(* patterns the code searches for with String.includes are written with    *)
(* the same fragments as the texts they can occur in, so includes is a     *)
(* contiguous-subsequence test.                                            *)
(***************************************************************************)
EXTENDS Integers, Sequences, FiniteSets, TLC

VARIABLES
    apiKey,        \* process.env.REACT_APP_ANTHROPIC_API_KEY (string)
    maxSizeEnv,    \* process.env.REACT_APP_MAX_FILE_SIZE_MB (string, '' when unset)
    image,         \* useState(null): the File held in state
    imagePreview,  \* useState(null): upload id whose data URL is shown, 0 = null
    instructions,  \* useState('')
    latexCode,     \* useState('')
    isConverting,  \* useState(false)
    copySuccess,   \* useState(false)
    error,         \* useState('')
    readers,       \* FileReaders started by handleImageUpload, not yet completed
    attempt,       \* the suspended convertToLatex call, if any
    copyCall,      \* the suspended copyToClipboard call, if any
    timers,        \* pending setTimeout(() => setCopySuccess(false), 2000)
    nextId,        \* number of accepted uploads so far (identifies File objects)
    netCalls,      \* number of fetch() calls issued by the current or last attempt
    latexSrc,      \* history: upload id of the image latexCode was produced from
    hist,          \* history: what the last step did, for the steps the
                   \* properties below speak about ("other" otherwise)
    sinceReset,    \* history: resetTool ran after a completed conversion, with
                   \* none pending, and no user action has happened since
    settled,       \* history: some conversion attempt has completed
    vFile,         \* argument of the last direct validateFile call
    vResult        \* its return value

vars == <<apiKey, maxSizeEnv, image, imagePreview, instructions, latexCode,
          isConverting, copySuccess, error, readers, attempt, copyCall,
          timers, nextId, netCalls, latexSrc, hist, sinceReset, settled, vFile, vResult>>

uiVars == <<image, imagePreview, instructions, latexCode, isConverting,
            copySuccess, error, readers, attempt, copyCall, timers, nextId,
            netCalls, latexSrc, hist, sinceReset, settled>>

(***************************************************************************)
(* Bounds                                                                  *)
(***************************************************************************)
MaxUploads == 2    \* accepted uploads per behaviour
MaxTimers == 1     \* copy-acknowledgment timers pending at once

(***************************************************************************)
(* JavaScript values                                                       *)
(***************************************************************************)
Null == << >>                       \* null / '' : both falsy
NaN == [nan |-> TRUE, val |-> 0]
Num(n) == [nan |-> FALSE, val |-> n]
JsMul(a, n) == IF a.nan THEN NaN ELSE Num(a.val * n)
JsGt(n, b) == (~b.nan) /\ n > b.val      \* n > b, false when b is NaN
JsLe(n, b) == (~b.nan) /\ n <= b.val     \* n <= b, false when b is NaN

Digits == <<"0", "1", "2", "3", "4", "5", "6", "7", "8", "9">>
IsDigit(c) == \E i \in 1..10 : Digits[i] = c
DigitVal(c) == (CHOOSE i \in 1..10 : Digits[i] = c) - 1
IsSpace(c) == c \in {" ", "\n"}

RECURSIVE NatToStr(_)
NatToStr(n) == IF n < 10 THEN <<Digits[n + 1]>>
               ELSE NatToStr(n \div 10) \o <<Digits[(n % 10) + 1]>>
NumToStr(n) == IF n < 0 THEN <<"-">> \o NatToStr(0 - n) ELSE NatToStr(n)

RECURSIVE SkipSpace(_)
SkipSpace(s) == IF s /= << >> /\ IsSpace(Head(s)) THEN SkipSpace(Tail(s)) ELSE s

RECURSIVE DigitPrefix(_, _)
DigitPrefix(s, acc) ==
    IF s /= << >> /\ IsDigit(Head(s))
    THEN DigitPrefix(Tail(s), acc * 10 + DigitVal(Head(s)))
    ELSE acc

\* parseInt(s), radix 10: leading white space, an optional sign, then the
\* longest run of digits; NaN when there is no digit.
parseInt(s) ==
    LET t == SkipSpace(s)
        neg == t /= << >> /\ Head(t) = "-"
        u == IF t /= << >> /\ Head(t) \in {"-", "+"} THEN Tail(t) ELSE t
    IN IF u = << >> \/ ~IsDigit(Head(u)) THEN NaN
       ELSE Num(IF neg THEN 0 - DigitPrefix(u, 0) ELSE DigitPrefix(u, 0))

\* process?.env?.[name] || defaultValue
getEnvVar(value, defaultValue) == IF value /= << >> THEN value ELSE defaultValue

BytesPerMB == 1024 * 1024
DefaultMaxMB == <<"2", "5">>
MAX_FILE_SIZE(env) == JsMul(parseInt(getEnvVar(env, DefaultMaxMB)), BytesPerMB)
SUPPORTED_FORMATS == {"image/png", "image/jpeg", "image/jpg", "image/gif", "image/webp"}

(***************************************************************************)
(* Files                                                                   *)
(***************************************************************************)
NoFile == [present |-> FALSE, type |-> "", size |-> 0]
File(t, n) == [present |-> TRUE, type |-> t, size |-> n]

\* (bytes / (1024 * 1024)).toFixed(2); bytes / 2^20 is exact in binary and
\* never half-way between two hundredths, so this is round-to-nearest.
toFixed2MB(bytes) ==
    LET h == ((bytes % BytesPerMB) * 100 + BytesPerMB \div 2) \div BytesPerMB
        whole == (bytes \div BytesPerMB) + (h \div 100)
        frac == h % 100
    IN NatToStr(whole) \o <<".">> \o <<Digits[(frac \div 10) + 1], Digits[(frac % 10) + 1]>>

MsgNoFile == <<"No file selected">>
MsgBadFormat == <<"Please upload a valid image file (PNG, JPG, JPEG, GIF, WebP)">>
MsgTooLarge(max, size) ==
    <<"File size must be less than ">> \o NumToStr(max.val \div BytesPerMB)
        \o <<"MB. Current size: ">> \o toFixed2MB(size) \o <<"MB">>

\* validateFile accepting every image/* type, as the file input's accept does
validateFile_anyImage(file, max) ==
    IF ~file.present THEN MsgNoFile
    ELSE IF file.type \notin {"image/png", "image/jpeg", "image/jpg", "image/gif",
                              "image/webp", "image/bmp", "image/svg+xml"}
         THEN MsgBadFormat
    ELSE IF JsGt(file.size, max) THEN MsgTooLarge(max, file.size)
    ELSE Null

validateFile(file, max) ==
    IF ~file.present THEN MsgNoFile
    ELSE IF file.type \notin SUPPORTED_FORMATS THEN MsgBadFormat
    ELSE IF JsGt(file.size, max) THEN MsgTooLarge(max, file.size)
    ELSE Null

(***************************************************************************)
(* Messages                                                                *)
(***************************************************************************)
MsgReadFail == <<"Failed to read the image file">>
MsgUploadFirst == <<"Please upload an image first">>
MsgInvalidKey == <<"Invalid API key. Please check your Anthropic API key in the .env.local file.">>
MsgForbidden == <<"Access forbidden. Please check your API key permissions.">>
MsgRateLimit == <<"Rate limit exceeded. Please wait a moment and try again.">>
MsgNetwork == <<"Network error. Please check your internet connection and try again.">>
MsgConvertFailed(m) == <<"Failed to convert image to LaTeX: ">> \o m
demoLatex == <<"% Demo LaTeX output - Add your API key for real conversion ...">>

\* s.includes(p)
Includes(s, p) ==
    \E i \in 0..(Len(s) - Len(p)) : \A j \in 1..Len(p) : s[i + j] = p[j]

RECURSIVE TrimEnd(_)
TrimEnd(s) == IF s /= << >> /\ IsSpace(s[Len(s)]) THEN TrimEnd(SubSeq(s, 1, Len(s) - 1)) ELSE s
\* s.trim()
Trim(s) == TrimEnd(SkipSpace(s))

(***************************************************************************)
(* What the environment can answer                                         *)
(***************************************************************************)
\* Error.message of a rejected fetch(): Chromium, Firefox, WebKit
TransportMessages == { <<"Failed to fetch">>,
                       <<"NetworkError when attempting to fetch resource.">>,
                       <<"Load failed">> }
\* Error.message of reading a property of null, and of a JSON syntax error
MsgNullDeref == <<"Cannot read properties of null">>
MsgJsonSyntax == <<"Unexpected token '<' is not valid JSON">>
MsgBase64Fail == <<"Failed to read file">>
MsgInvalidFormat == <<"Invalid response format from API">>

Statuses == {200, 401, 403, 429, 500}
ResponseOk(status) == status >= 200 /\ status <= 299

\* error.message values of an error body
Details == { << >>,
             <<"quota ", "4", "0", "1", " exceeded">>,
             <<"see rule ", "4", "2", "9">>,
             <<"Failed to fetch">> }
\* what response.json() gives for an error response
ErrorBodies == { [kind |-> "unparseable", detail |-> << >>],
                 [kind |-> "null", detail |-> << >>],
                 [kind |-> "noerror", detail |-> << >>] }
               \cup { [kind |-> "msg", detail |-> d] : d \in Details }

Texts == { << >>, <<" ">>, <<"x">>, <<" ", "x", "\n">> }
\* what response.json() gives for a success response
Bodies == { [kind |-> k, text |-> << >>] :
              k \in {"unparseable", "null", "nocontent", "emptylist", "notext"} }
          \cup { [kind |-> "text", text |-> t] : t \in Texts }

InstructionTexts == { << >>, <<"theta is an angle">> }

(***************************************************************************)
(* State                                                                   *)
(***************************************************************************)
NoImage == [id |-> 0, type |-> "", size |-> 0]
NoAttempt == [stage |-> "none", img |-> 0, status |-> 0, quiet |-> TRUE]
\* history kept in the attempt: quiet is FALSE once the user has acted while
\* the attempt was in flight
Disturbed(a) == IF a.stage = "none" THEN a ELSE [a EXCEPT !.quiet = FALSE]
Step(op, n) == [op |-> op, arg |-> n]

UploadFiles == { NoFile,
                 File("image/jpeg", 25 * BytesPerMB),
                 File("image/png", 25 * BytesPerMB + 1),
                 File("text/plain", 10) }

UiInit ==
    /\ image = NoImage
    /\ imagePreview = 0
    /\ instructions = << >>
    /\ latexCode = << >>
    /\ isConverting = FALSE
    /\ copySuccess = FALSE
    /\ error = << >>
    /\ readers = {}
    /\ attempt = NoAttempt
    /\ copyCall = 0
    /\ timers = 0
    /\ nextId = 0
    /\ netCalls = 0
    /\ latexSrc = 0
    /\ hist = Step("init", 0)
    /\ sinceReset = FALSE
    /\ settled = FALSE

Init ==
    /\ apiKey \in { << >>, <<"sk-ant-key">> }
    /\ maxSizeEnv = << >>
    /\ vFile = NoFile
    /\ vResult = Null
    /\ UiInit

config == <<apiKey, maxSizeEnv, vFile, vResult>>

(***************************************************************************)
(* Upload and preview                                                      *)
(***************************************************************************)
\* handleImageUpload storing the file before validating it
handleImageUpload_storeFirst(file) ==
    LET validationError == validateFile(file, MAX_FILE_SIZE(maxSizeEnv)) IN
    /\ nextId < MaxUploads
    /\ image' = IF file.present
                THEN [id |-> nextId + 1, type |-> file.type, size |-> file.size]
                ELSE NoImage
    /\ nextId' = nextId + 1
    /\ IF validationError /= Null
       THEN /\ error' = validationError
            /\ hist' = Step("uploadRejected", 0)
            /\ UNCHANGED <<latexCode, latexSrc, readers>>
       ELSE /\ error' = << >>
            /\ latexCode' = << >>
            /\ latexSrc' = 0
            /\ readers' = readers \cup {nextId + 1}
            /\ hist' = Step("uploadAccepted", nextId + 1)
    /\ sinceReset' = FALSE
    /\ attempt' = Disturbed(attempt)
    /\ UNCHANGED <<imagePreview, instructions, isConverting, copySuccess,
                   copyCall, timers, netCalls>>
    /\ UNCHANGED settled
    /\ UNCHANGED config

handleImageUpload(file) ==
    LET validationError == validateFile(file, MAX_FILE_SIZE(maxSizeEnv)) IN
    /\ IF validationError /= Null
       THEN /\ error' = validationError
            /\ hist' = Step("uploadRejected", 0)
            /\ UNCHANGED <<image, latexCode, latexSrc, readers, nextId>>
       ELSE /\ nextId < MaxUploads
            /\ image' = [id |-> nextId + 1, type |-> file.type, size |-> file.size]
            /\ error' = << >>
            /\ latexCode' = << >>
            /\ latexSrc' = 0
            /\ readers' = readers \cup {nextId + 1}
            /\ nextId' = nextId + 1
            /\ hist' = Step("uploadAccepted", nextId + 1)
    /\ sinceReset' = FALSE
    /\ UNCHANGED <<imagePreview, instructions, isConverting, copySuccess,
                   copyCall, timers, netCalls>>
    /\ attempt' = Disturbed(attempt)
    /\ UNCHANGED settled
    /\ UNCHANGED config

\* reader.onload of the preview reader started for upload id
PreviewLoaded(id) ==
    /\ id \in readers
    /\ readers' = readers \ {id}
    /\ imagePreview' = id
    /\ hist' = Step("other", 0)
    /\ UNCHANGED <<image, instructions, latexCode, isConverting, copySuccess,
                   error, attempt, copyCall, timers, nextId, netCalls,
                   latexSrc, sinceReset>>
    /\ UNCHANGED settled
    /\ UNCHANGED config

\* reader.onerror of the preview reader started for upload id
PreviewFailed(id) ==
    /\ id \in readers
    /\ readers' = readers \ {id}
    /\ error' = MsgReadFail
    /\ hist' = Step("previewFailed", id)
    /\ UNCHANGED <<image, imagePreview, instructions, latexCode, isConverting,
                   copySuccess, attempt, copyCall, timers, nextId, netCalls,
                   latexSrc, sinceReset>>
    /\ UNCHANGED settled
    /\ UNCHANGED config

setInstructions(text) ==
    /\ instructions' = text
    /\ instructions /= text
    /\ sinceReset' = FALSE
    /\ hist' = Step("other", 0)
    /\ UNCHANGED <<image, imagePreview, latexCode, isConverting, copySuccess,
                   error, readers, copyCall, timers, nextId,
                   netCalls, latexSrc>>
    /\ attempt' = Disturbed(attempt)
    /\ UNCHANGED settled
    /\ UNCHANGED config

\* the error banner's close button, rendered only while error is non-empty
dismissError ==
    /\ error /= << >>
    /\ error' = << >>
    /\ sinceReset' = FALSE
    /\ hist' = Step("other", 0)
    /\ UNCHANGED <<image, imagePreview, instructions, latexCode, isConverting,
                   copySuccess, readers, copyCall, timers, nextId,
                   netCalls, latexSrc>>
    /\ attempt' = Disturbed(attempt)
    /\ UNCHANGED settled
    /\ UNCHANGED config

(***************************************************************************)
(* Conversion                                                              *)
(***************************************************************************)
\* a Convert button that stays enabled during a conversion: disabled={!image}
ConvertEnabled_whileConverting == image.id /= 0

\* the Convert button: disabled={!image || isConverting}
ConvertEnabled == image.id /= 0 /\ ~isConverting

\* the message thrown for a non-ok response
ApiFailedMessage(status, body) ==
    <<"API request failed: ">> \o NatToStr(status) \o <<" - ">>
        \o (IF body.kind = "msg" /\ body.detail /= << >>
            THEN body.detail ELSE <<"Unknown error">>)

\* the catch block: the error shown for a thrown err.message
catchError(message) ==
    IF Includes(message, <<"4", "0", "1">>) THEN MsgInvalidKey
    ELSE IF Includes(message, <<"4", "0", "3">>) THEN MsgForbidden
    ELSE IF Includes(message, <<"4", "2", "9">>) THEN MsgRateLimit
    ELSE IF Includes(message, <<"Failed to fetch">>) THEN MsgNetwork
    ELSE MsgConvertFailed(message)

\* the catch block without the finally block
Throw_noFinally(message, op) ==
    /\ error' = catchError(message)
    /\ attempt' = NoAttempt
    /\ settled' = TRUE
    /\ hist' = Step(op, attempt.status)
    /\ UNCHANGED <<image, imagePreview, instructions, latexCode, copySuccess,
                   readers, copyCall, timers, nextId, netCalls, latexSrc,
                   sinceReset, isConverting>>
    /\ UNCHANGED config

\* catch (err) {...} finally {...}
Throw(message, op) ==
    /\ error' = catchError(message)
    /\ isConverting' = FALSE
    /\ attempt' = NoAttempt
    /\ settled' = TRUE
    /\ hist' = Step(op, attempt.status)
    /\ UNCHANGED <<image, imagePreview, instructions, latexCode, copySuccess,
                   readers, copyCall, timers, nextId, netCalls, latexSrc,
                   sinceReset>>
    /\ UNCHANGED config

\* convertToLatex without setError('') and setLatexCode('') on entry
convertToLatex_noClear ==
    /\ ConvertEnabled
    /\ isConverting' = TRUE
    /\ attempt' = [stage |-> IF apiKey = << >> THEN "delay" ELSE "read",
                   img |-> image.id, status |-> 0, quiet |-> TRUE]
    /\ sinceReset' = FALSE
    /\ netCalls' = 0
    /\ hist' = Step("other", 0)
    /\ UNCHANGED <<image, imagePreview, instructions, copySuccess, readers,
                   copyCall, timers, nextId, error, latexCode, latexSrc>>
    /\ UNCHANGED settled
    /\ UNCHANGED config

\* convertToLatex up to its first await
convertToLatex ==
    /\ ConvertEnabled
    /\ isConverting' = TRUE
    /\ error' = << >>
    /\ latexCode' = << >>
    /\ latexSrc' = 0
    /\ attempt' = [stage |-> IF apiKey = << >> THEN "delay" ELSE "read",
                   img |-> image.id, status |-> 0, quiet |-> TRUE]
    /\ sinceReset' = FALSE
    /\ netCalls' = 0
    /\ hist' = Step("other", 0)
    /\ UNCHANGED <<image, imagePreview, instructions, copySuccess, readers,
                   copyCall, timers, nextId>>
    /\ UNCHANGED settled
    /\ UNCHANGED config

\* the no-image guard without its return: the call goes on into the attempt
convertToLatexNoImage_noReturn ==
    /\ image.id = 0
    /\ ~isConverting
    /\ isConverting' = TRUE
    /\ error' = << >>
    /\ latexCode' = << >>
    /\ latexSrc' = 0
    /\ netCalls' = 0
    /\ attempt' = [stage |-> IF apiKey = << >> THEN "delay" ELSE "read",
                   img |-> 0, status |-> 0, quiet |-> TRUE]
    /\ sinceReset' = FALSE
    /\ hist' = Step("convertNoImage", 0)
    /\ UNCHANGED <<image, imagePreview, instructions, copySuccess, readers,
                   copyCall, timers, nextId>>
    /\ UNCHANGED settled
    /\ UNCHANGED config

\* convertToLatex called while no image is held: the Convert button is
\* disabled then, so only a direct call of the handler gets here
convertToLatexNoImage ==
    /\ image.id = 0
    /\ error' = MsgUploadFirst
    /\ sinceReset' = FALSE
    /\ attempt' = Disturbed(attempt)
    /\ hist' = Step("convertNoImage", 0)
    /\ UNCHANGED <<image, imagePreview, instructions, latexCode, isConverting,
                   copySuccess, readers, copyCall, timers, nextId, netCalls,
                   latexSrc>>
    /\ UNCHANGED settled
    /\ UNCHANGED config

\* demo mode: the 2000 ms timeout fires
DemoDelayElapsed ==
    /\ attempt.stage = "delay"
    /\ latexCode' = demoLatex
    /\ latexSrc' = attempt.img
    /\ isConverting' = FALSE
    /\ attempt' = NoAttempt
    /\ settled' = TRUE
    /\ hist' = Step("demoSettled", 0)
    /\ UNCHANGED <<image, imagePreview, instructions, copySuccess, error,
                   readers, copyCall, timers, nextId, netCalls, sinceReset>>
    /\ UNCHANGED config

\* the base64 reader's onload: the prompt is built and fetch() is called
Base64Loaded ==
    /\ attempt.stage = "read"
    /\ attempt' = [attempt EXCEPT !.stage = "fetch"]
    /\ netCalls' = netCalls + 1
    /\ hist' = Step("other", 0)
    /\ UNCHANGED <<image, imagePreview, instructions, latexCode, isConverting,
                   copySuccess, error, readers, copyCall, timers, nextId,
                   latexSrc, sinceReset>>
    /\ UNCHANGED settled
    /\ UNCHANGED config

\* the base64 reader's onerror
Base64Failed ==
    /\ attempt.stage = "read"
    /\ Throw(MsgBase64Fail, "base64Failed")

\* a rejected fetch() retried, as the README's retryApiCall would
FetchRejected_retry(message) ==
    /\ attempt.stage = "fetch"
    /\ netCalls' = netCalls + 1
    /\ hist' = Step("other", 0)
    /\ UNCHANGED <<image, imagePreview, instructions, latexCode, isConverting,
                   copySuccess, error, readers, attempt, copyCall, timers,
                   nextId, latexSrc, sinceReset>>
    /\ UNCHANGED settled
    /\ UNCHANGED config

\* fetch() rejects: no HTTP response
FetchRejected(message) ==
    /\ attempt.stage = "fetch"
    /\ Throw(message, "fetchRejected")

\* fetch() resolves with a response; response.json() is awaited next
FetchResolved(status) ==
    /\ attempt.stage = "fetch"
    /\ attempt' = [attempt EXCEPT !.stage = IF ResponseOk(status) THEN "body" ELSE "errbody",
                                  !.status = status]
    /\ hist' = Step("other", 0)
    /\ UNCHANGED <<image, imagePreview, instructions, latexCode, isConverting,
                   copySuccess, error, readers, copyCall, timers, nextId,
                   netCalls, latexSrc, sinceReset>>
    /\ UNCHANGED settled
    /\ UNCHANGED config

\* the non-ok branch throwing outside the try block: nothing catches the
\* error and the finally block does not run
ErrorBodyRead_uncaught(body) ==
    /\ attempt.stage = "errbody"
    /\ attempt' = NoAttempt
    /\ settled' = TRUE
    /\ hist' = Step("httpError", attempt.status)
    /\ UNCHANGED <<image, imagePreview, instructions, latexCode, copySuccess,
                   readers, copyCall, timers, nextId, netCalls, latexSrc,
                   sinceReset, isConverting, error>>
    /\ UNCHANGED config

\* !response.ok: response.json().catch(() => ({})) settles and the error is thrown
ErrorBodyRead(body) ==
    /\ attempt.stage = "errbody"
    /\ IF body.kind = "null"
       THEN Throw(MsgNullDeref, "httpError")
       ELSE Throw(ApiFailedMessage(attempt.status, body), "httpError")

\* the body check reduced to !data.content: a missing first part or text
\* is dereferenced
BodyRead_weakCheck(body) ==
    /\ attempt.stage = "body"
    /\ CASE body.kind = "unparseable" -> Throw(MsgJsonSyntax, "badBody")
         [] body.kind = "null" -> Throw(MsgNullDeref, "badBody")
         [] body.kind = "nocontent" -> Throw(MsgInvalidFormat, "noText")
         [] body.kind \in {"emptylist", "notext"} -> Throw(MsgNullDeref, "noText")
         [] OTHER ->
              /\ latexCode' = Trim(body.text)
              /\ latexSrc' = attempt.img
              /\ isConverting' = FALSE
              /\ attempt' = NoAttempt
              /\ settled' = TRUE
              /\ hist' = Step("liveSettled", attempt.status)
              /\ UNCHANGED <<image, imagePreview, instructions, copySuccess,
                             error, readers, copyCall, timers, nextId,
                             netCalls, sinceReset>>
              /\ UNCHANGED config

\* response.ok: response.json() settles
BodyRead(body) ==
    /\ attempt.stage = "body"
    /\ CASE body.kind = "unparseable" -> Throw(MsgJsonSyntax, "badBody")
         [] body.kind = "null" -> Throw(MsgNullDeref, "badBody")
         [] body.kind \in {"nocontent", "emptylist", "notext"} -> Throw(MsgInvalidFormat, "noText")
         [] body.kind = "text" /\ body.text = << >> -> Throw(MsgInvalidFormat, "noText")
         [] OTHER ->
              /\ latexCode' = Trim(body.text)
              /\ latexSrc' = attempt.img
              /\ isConverting' = FALSE
              /\ attempt' = NoAttempt
              /\ settled' = TRUE
              /\ hist' = Step("liveSettled", attempt.status)
              /\ UNCHANGED <<image, imagePreview, instructions, copySuccess,
                             error, readers, copyCall, timers, nextId,
                             netCalls, sinceReset>>
              /\ UNCHANGED config

(***************************************************************************)
(* Copy                                                                    *)
(***************************************************************************)
\* setCopySuccess(true); setTimeout(() => setCopySuccess(false), 2000)
Acknowledge ==
    /\ copySuccess' = TRUE
    /\ timers' = timers + 1

\* copyToClipboard where navigator.clipboard.writeText returns a promise
copyToClipboard ==
    /\ latexCode /= << >>
    /\ timers + copyCall < MaxTimers
    /\ copyCall' = copyCall + 1
    /\ sinceReset' = FALSE
    /\ hist' = Step("other", 0)
    /\ UNCHANGED <<image, imagePreview, instructions, latexCode, isConverting,
                   copySuccess, error, readers, timers, nextId,
                   netCalls, latexSrc>>
    /\ attempt' = Disturbed(attempt)
    /\ UNCHANGED settled
    /\ UNCHANGED config

\* copyToClipboard clicked again while MaxTimers acknowledgments are pending
copyToClipboardOverlap ==
    /\ latexCode /= << >>
    /\ timers + copyCall = MaxTimers
    /\ copyCall' = copyCall + 1
    /\ sinceReset' = FALSE
    /\ hist' = Step("other", 0)
    /\ UNCHANGED <<image, imagePreview, instructions, latexCode, isConverting,
                   copySuccess, error, readers, timers, nextId,
                   netCalls, latexSrc>>
    /\ attempt' = Disturbed(attempt)
    /\ UNCHANGED settled
    /\ UNCHANGED config

\* copyToClipboard where navigator.clipboard is missing: writeText throws
\* inside the try and the catch block runs at once
copyToClipboardNoApi ==
    /\ latexCode /= << >>
    /\ timers + copyCall < MaxTimers
    /\ Acknowledge
    /\ sinceReset' = FALSE
    /\ hist' = Step("copyFallback", 0)
    /\ UNCHANGED <<image, imagePreview, instructions, latexCode, isConverting,
                   error, readers, copyCall, nextId, netCalls,
                   latexSrc>>
    /\ attempt' = Disturbed(attempt)
    /\ UNCHANGED settled
    /\ UNCHANGED config

\* the clipboard write resolves
ClipboardWritten ==
    /\ copyCall > 0
    /\ copyCall' = copyCall - 1
    /\ Acknowledge
    /\ hist' = Step("other", 0)
    /\ UNCHANGED <<image, imagePreview, instructions, latexCode, isConverting,
                   error, readers, attempt, nextId, netCalls, latexSrc,
                   sinceReset>>
    /\ UNCHANGED settled
    /\ UNCHANGED config

\* a catch block that copies through the textarea but acknowledges nothing
ClipboardRejected_silent ==
    /\ copyCall > 0
    /\ copyCall' = copyCall - 1
    /\ hist' = Step("copyFallback", 1)
    /\ UNCHANGED <<image, imagePreview, instructions, latexCode, isConverting,
                   error, readers, attempt, nextId, netCalls, latexSrc,
                   sinceReset, copySuccess, timers>>
    /\ UNCHANGED settled
    /\ UNCHANGED config

\* the clipboard write rejects: the catch block (textarea + execCommand)
ClipboardRejected ==
    /\ copyCall > 0
    /\ copyCall' = copyCall - 1
    /\ Acknowledge
    /\ hist' = Step("copyFallback", 1)
    /\ UNCHANGED <<image, imagePreview, instructions, latexCode, isConverting,
                   error, readers, attempt, nextId, netCalls, latexSrc,
                   sinceReset>>
    /\ UNCHANGED settled
    /\ UNCHANGED config

\* a 2000 ms acknowledgment timer fires
AckTimerFired ==
    /\ timers > 0
    /\ timers' = timers - 1
    /\ copySuccess' = FALSE
    /\ hist' = Step("other", 0)
    /\ UNCHANGED <<image, imagePreview, instructions, latexCode, isConverting,
                   error, readers, attempt, copyCall, nextId, netCalls,
                   latexSrc, sinceReset>>
    /\ UNCHANGED settled
    /\ UNCHANGED config

(***************************************************************************)
(* Reset                                                                   *)
(***************************************************************************)
\* the useState fields of the component
ComponentState ==
    [image |-> image, imagePreview |-> imagePreview, latexCode |-> latexCode,
     instructions |-> instructions, error |-> error,
     copySuccess |-> copySuccess, isConverting |-> isConverting]

\* a reset that flips the acknowledgment instead of clearing it
resetToolOn_toggle(st) ==
    [st EXCEPT !.image = NoImage,
               !.imagePreview = 0,
               !.latexCode = << >>,
               !.instructions = << >>,
               !.error = << >>,
               !.copySuccess = ~st.copySuccess]

\* the six setters of resetTool applied to the fields st
resetToolOn(st) ==
    [st EXCEPT !.image = NoImage,
               !.imagePreview = 0,
               !.latexCode = << >>,
               !.instructions = << >>,
               !.error = << >>,
               !.copySuccess = FALSE]

\* a reset that also abandons the attempt in flight
resetTool_cancel ==
    /\ imagePreview /= 0
    /\ image' = NoImage
    /\ imagePreview' = 0
    /\ latexCode' = << >>
    /\ latexSrc' = 0
    /\ instructions' = << >>
    /\ error' = << >>
    /\ copySuccess' = FALSE
    /\ isConverting' = FALSE
    /\ attempt' = NoAttempt
    /\ sinceReset' = settled
    /\ hist' = Step("reset", 0)
    /\ UNCHANGED <<readers, copyCall, timers, nextId, netCalls>>
    /\ UNCHANGED settled
    /\ UNCHANGED config

\* the "Remove image" button, rendered only while imagePreview is set
resetTool ==
    LET after == resetToolOn(ComponentState) IN
    /\ imagePreview /= 0
    /\ image' = after.image
    /\ imagePreview' = after.imagePreview
    /\ latexCode' = after.latexCode
    /\ latexSrc' = 0
    /\ instructions' = after.instructions
    /\ error' = after.error
    /\ copySuccess' = after.copySuccess
    /\ isConverting' = after.isConverting
    /\ sinceReset' = (settled /\ attempt.stage = "none")
    /\ hist' = Step("reset", 0)
    /\ UNCHANGED <<readers, copyCall, timers, nextId, netCalls>>
    /\ attempt' = Disturbed(attempt)
    /\ UNCHANGED settled
    /\ UNCHANGED config

(***************************************************************************)
(* Specifications                                                          *)
(***************************************************************************)
UserAction ==
    \/ \E file \in UploadFiles : handleImageUpload(file)
    \/ \E text \in InstructionTexts : setInstructions(text)
    \/ dismissError
    \/ convertToLatex
    \/ copyToClipboard
    \/ copyToClipboardNoApi
    \/ resetTool

ConversionStep ==
    \/ DemoDelayElapsed
    \/ Base64Loaded
    \/ Base64Failed
    \/ \E message \in TransportMessages : FetchRejected(message)
    \/ \E status \in Statuses : FetchResolved(status)
    \/ \E body \in ErrorBodies : ErrorBodyRead(body)
    \/ \E body \in Bodies : BodyRead(body)

Completion ==
    \/ \E id \in 1..MaxUploads : PreviewLoaded(id)
    \/ \E id \in 1..MaxUploads : PreviewFailed(id)
    \/ ConversionStep
    \/ ClipboardWritten
    \/ ClipboardRejected
    \/ AckTimerFired

Next == UserAction \/ Completion

Spec == Init /\ [][Next]_vars


\* the component with its handler convertToLatex also called directly
NextDirect == Next \/ convertToLatexNoImage

SpecDirect == Init /\ [][NextDirect]_vars

\* the component with one more copy allowed while acknowledgments are pending
NextOverlap == Next \/ copyToClipboardOverlap

SpecOverlap == Init /\ [][NextOverlap]_vars

\* awaited operations (timer, file read, fetch, body read) complete
FairSpec == Spec /\ WF_vars(ConversionStep)

(***************************************************************************)
(* validateFile on its own, over every setting of the size ceiling         *)
(***************************************************************************)
EnvSettings == { << >>,
                 <<"2", "5">>,
                 <<"1">>,
                 <<"0">>,
                 <<"2", ".", "5">>,
                 <<" ", "2">>,
                 <<"1", "0", "M", "B">>,
                 <<"-", "1">>,
                 <<"a", "b", "c">> }

FileTypes == SUPPORTED_FORMATS \cup
             {"image/bmp", "image/svg+xml", "application/pdf", "text/plain", ""}

FileSizes == { 0, 1,
               BytesPerMB - 1, BytesPerMB, BytesPerMB + 1,
               2 * BytesPerMB, 2 * BytesPerMB + 1,
               10 * BytesPerMB, 10 * BytesPerMB + 1,
               25 * BytesPerMB - 1, 25 * BytesPerMB, 25 * BytesPerMB + 1,
               100 * BytesPerMB }

ValidateFiles == {NoFile} \cup { File(t, n) : t \in FileTypes, n \in FileSizes }

InitValidate ==
    /\ apiKey = << >>
    /\ maxSizeEnv \in EnvSettings
    /\ vFile = NoFile
    /\ vResult = Null
    /\ UiInit

callValidateFile(file) ==
    /\ vFile' = file
    /\ vResult' = validateFile(file, MAX_FILE_SIZE(maxSizeEnv))
    /\ hist' = Step("validate", 0)
    /\ UNCHANGED <<apiKey, maxSizeEnv, image, imagePreview, instructions,
                   latexCode, isConverting, copySuccess, error, readers,
                   attempt, copyCall, timers, nextId, netCalls, latexSrc,
                   sinceReset, settled>>

NextValidate == \E file \in ValidateFiles : callValidateFile(file)

SpecValidate == InitValidate /\ [][NextValidate]_vars

(***************************************************************************)
(* Properties                                                              *)
(***************************************************************************)
Defaults ==
    /\ image = NoImage
    /\ imagePreview = 0
    /\ latexCode = << >>
    /\ error = << >>
    /\ instructions = << >>

\* C1: a displayed result was produced from the image that is now active.
C1_ResultFromActiveImage ==
    latexCode /= << >> => (image.id /= 0 /\ latexSrc = image.id)

\* C2: error and latexCode are never both non-empty.
C2_ErrorResultExclusive ==
    ~(error /= << >> /\ latexCode /= << >>)

\* C3: after every handleImageUpload, accepted or rejected, the previous
\* result is gone.
C3_UploadClearsResult ==
    hist.op \in {"uploadAccepted", "uploadRejected"} => latexCode = << >>

\* the image format a MIME type declares
FormatOf(type) ==
    CASE type = "image/png" -> "PNG"
      [] type \in {"image/jpeg", "image/jpg"} -> "JPEG"
      [] type = "image/gif" -> "GIF"
      [] type = "image/webp" -> "WebP"
      [] OTHER -> "other"

\* C4: validateFile rejects every present file whose declared type is not
\* PNG, JPEG, GIF or WebP, whatever its size.
C4_RejectsOtherTypes ==
    (hist.op = "validate" /\ vFile.present
        /\ FormatOf(vFile.type) \notin {"PNG", "JPEG", "GIF", "WebP"})
    => vResult /= Null

C4_Witness ==
    /\ hist.op = "validate"
    /\ vFile = File("image/bmp", 1)
    /\ maxSizeEnv = << >>
    /\ vResult = MsgBadFormat

\* C5: for a present file of an allowed type and every value of the size
\* setting, validateFile accepts exactly when size <= ceiling.
C5_AcceptIffWithinCeiling ==
    (hist.op = "validate" /\ vFile.present /\ vFile.type \in SUPPORTED_FORMATS)
    => ((vResult = Null) <=> JsLe(vFile.size, MAX_FILE_SIZE(maxSizeEnv)))

\* C6: in demo mode no network call is made, no result appears while the
\* delay is pending, and the attempt settles with the sample text and an
\* empty error.
C6_DemoSettles ==
    apiKey = << >> =>
        /\ netCalls = 0
        /\ attempt.stage \in {"none", "delay"}
        /\ attempt.stage = "delay" => latexCode = << >>
        /\ hist.op = "demoSettled" => (latexCode = demoLatex /\ error = << >>)

StatusMessage(status) ==
    CASE status = 401 -> MsgInvalidKey
      [] status = 403 -> MsgForbidden
      [] status = 429 -> MsgRateLimit

\* C7: a 401, 403 or 429 response shows the message of that status, whatever
\* the error body holds.
C7_StatusSpecificMessage ==
    (hist.op = "httpError" /\ hist.arg \in {401, 403, 429})
    => error = StatusMessage(hist.arg)

\* C8: after a reset with no conversion pending, image, preview, result,
\* error and instructions stay at their defaults until the next user action.
C8_ResetStaysClean ==
    sinceReset => Defaults

\* C9: when the primary clipboard write fails, the fallback runs and the
\* copied acknowledgment is shown.
C9_FallbackAcknowledges ==
    hist.op = "copyFallback" => copySuccess = TRUE

C9_Witness ==
    /\ hist = Step("copyFallback", 1)
    /\ copySuccess = TRUE
    /\ latexCode /= << >>

\* C10: whenever isConverting is true it is eventually false again, on every
\* outcome of the awaited operations.
C10_ConvertingEventuallyCleared ==
    isConverting ~> ~isConverting

C10_Witness ==
    /\ hist.op \in {"httpError", "fetchRejected", "base64Failed", "badBody", "noText"}
    /\ error /= << >>
    /\ ~isConverting

\* the image passes validateFile under the configured ceiling
ImageValid(img) ==
    validateFile(File(img.type, img.size), MAX_FILE_SIZE(maxSizeEnv)) = Null

\* C11: an attempt starts only with an image held, every image held passed
\* validation, and convertToLatex called with no image only sets the
\* 'Please upload an image first' error: isConverting, the pending attempt
\* and the number of network calls stay as they were.
C11_ConvertNeedsValidImage ==
    [][ /\ (attempt.stage = "none" /\ attempt'.stage /= "none")
            => (image.id /= 0 /\ attempt'.img = image.id /\ ImageValid(image))
        /\ image'.id /= 0 => ImageValid(image')
        /\ hist'.op = "convertNoImage"
            => /\ error' = MsgUploadFirst
               /\ isConverting' = isConverting
               /\ attempt'.stage = attempt.stage
               /\ netCalls' = netCalls ]_vars

C11_Witness ==
    /\ hist.op = "convertNoImage"
    /\ image = NoImage
    /\ error = MsgUploadFirst
    /\ ~isConverting
    /\ netCalls = 0

\* C12: resetTool leaves isConverting and the attempt in flight as they are,
\* and the attempt, when it completes, clears isConverting and stores its
\* result or an error whatever the image is by then.
C12_ResetDoesNotCancel ==
    [][ /\ hist'.op = "reset"
            => /\ isConverting' = isConverting
               /\ attempt'.stage = attempt.stage
               /\ attempt'.img = attempt.img
        /\ (attempt.stage /= "none" /\ attempt'.stage = "none")
            => /\ isConverting' = FALSE
               /\ (latexSrc' = attempt.img \/ error' /= << >>) ]_vars

\* a result is displayed, no image is held: the attempt outlived a reset
C12_Witness ==
    /\ image = NoImage
    /\ latexCode /= << >>
    /\ settled
    /\ ~isConverting

\* C13 (as stated): after a rejected upload no conversion can be started.
C13_RejectBlocksConvert ==
    hist.op = "uploadRejected" => ~ConvertEnabled

\* C13 (amended): a rejected upload leaves the image as it was; conversion
\* is enabled after it only if it was enabled before, for the image an
\* earlier upload got accepted.
C13_RejectedFileNeverConverted ==
    [][ hist'.op = "uploadRejected"
            => /\ image' = image
               /\ ConvertEnabled' => (ConvertEnabled /\ ImageValid(image')) ]_vars

C13_Witness ==
    /\ hist.op = "uploadRejected"
    /\ image = NoImage
    /\ error = MsgBadFormat
    /\ ~ConvertEnabled

FailureOps == {"base64Failed", "fetchRejected", "httpError", "badBody", "noText"}
SuccessOps == {"demoSettled", "liveSettled"}

\* C14: an attempt during which the user did nothing settles with exactly
\* one of result and error: a result and no error on success, an error and
\* no result on failure.
C14_SettlesWithExactlyOne ==
    [][ (attempt.stage /= "none" /\ attempt.quiet /\ attempt'.stage = "none")
            => /\ hist'.op \in SuccessOps
                    => (latexCode' /= << >> /\ error' = << >>)
               /\ hist'.op \in FailureOps
                    => (error' /= << >> /\ latexCode' = << >>) ]_vars

\* the generic message of a failed request, with its status
IsRequestFailed(e, status) ==
    LET pre == MsgConvertFailed(<<"API request failed: ">> \o NatToStr(status) \o <<" - ">>)
    IN Len(e) > Len(pre) /\ SubSeq(e, 1, Len(pre)) = pre

\* C15: a non-success response with a status other than 401, 403 and 429
\* shows the generic request-failed message with that status.
C15_GenericForOtherStatus ==
    (hist.op = "httpError" /\ hist.arg \notin {401, 403, 429})
    => IsRequestFailed(error, hist.arg)

\* C16: every transport failure shows the connectivity message.
C16_TransportShowsNetwork ==
    hist.op = "fetchRejected" => error = MsgNetwork

\* C17: a success body without the text field settles with the
\* invalid-response error and no result.
C17_MissingTextIsError ==
    hist.op = "noText"
    => /\ error = MsgConvertFailed(MsgInvalidFormat)
       /\ latexCode = << >>
       /\ latexSrc = 0
       /\ ~isConverting

C17_Witness ==
    /\ hist.op = "noText"
    /\ error = MsgConvertFailed(MsgInvalidFormat)
    /\ latexCode = << >>
    /\ netCalls = 1

C19_InFlightBothEmpty ==
    (attempt.stage /= "none" /\ attempt.quiet)
    => (latexCode = << >> /\ error = << >>)

\* C19 (amended): ... the result is empty, and the error is empty or the
\* read-failure message of a preview read that failed meanwhile.
C19_InFlightClearedOnEntry ==
    (attempt.stage /= "none" /\ attempt.quiet)
    => (latexCode = << >> /\ error \in {<< >>, MsgReadFail})

\* a second attempt in flight: the first one's outcome has been cleared
C19_Witness ==
    /\ attempt.stage /= "none"
    /\ attempt.quiet
    /\ settled
    /\ latexCode = << >>
    /\ error = << >>

\* C20: after the preview read of the held image has failed, no conversion
\* can be started for it.
C20_ReadErrorBlocksConvert ==
    (hist.op = "previewFailed" /\ image.id = hist.arg) => ~ConvertEnabled

\* C21: right after an attempt has settled with an error, isConverting is
\* false, no attempt is pending and, when an image is still held, the
\* Convert button starts a new attempt.
C21_NoErrorIsFatal ==
    hist.op \in FailureOps
    => /\ ~isConverting
       /\ attempt.stage = "none"
       /\ image.id /= 0 => ENABLED convertToLatex

\* a failed live attempt with its image still held
C21_Witness ==
    /\ hist.op \in FailureOps
    /\ error /= << >>
    /\ image.id /= 0
    /\ image.id = imagePreview
    /\ ConvertEnabled

\* C22: an acknowledgment stays shown until the timer armed by its own copy
\* fires: a timer that hides the acknowledgment is the last one pending.
C22_AckShownFullDelay ==
    [][ (copySuccess /\ ~copySuccess' /\ timers' < timers) => timers' = 0 ]_vars

\* C23: resetting the fields a second time changes nothing, and already
\* the first reset leaves image, preview, result, error, instructions and
\* the copy acknowledgment at their defaults.
C23_ResetIdempotent ==
    LET once == resetToolOn(ComponentState) IN
    /\ resetToolOn(once) = once
    /\ once.image = NoImage
    /\ once.imagePreview = 0
    /\ once.latexCode = << >>
    /\ once.error = << >>
    /\ once.instructions = << >>
    /\ once.copySuccess = FALSE
    /\ hist.op = "reset" => (Defaults /\ ~copySuccess)

\* a reset made after a conversion, with the fields as the reset left them
C23_Witness ==
    /\ hist.op = "reset"
    /\ settled
    /\ ComponentState = resetToolOn(ComponentState)
    /\ timers > 0

\* C24: a preview shown was read from the image now held, and no preview is
\* shown while no image is held.
C24_PreviewOfActiveImage ==
    /\ imagePreview /= 0 => imagePreview = image.id
    /\ image.id = 0 => imagePreview = 0

\* C25: isConverting is true exactly while an attempt is pending, and an
\* attempt is started only when none is pending: no step replaces a
\* pending attempt by a fresh one.
C25_SingleAttempt ==
    [][ /\ isConverting <=> attempt.stage /= "none"
        /\ isConverting' <=> attempt'.stage /= "none"
        /\ (attempt' /= attempt /\ attempt'.stage \in {"delay", "read"}
                /\ attempt'.quiet)
             => (attempt.stage = "none" /\ ~isConverting /\ image.id /= 0) ]_vars

\* a second attempt pending, started after the first one had settled
C25_Witness ==
    /\ attempt.stage \in {"delay", "read"}
    /\ attempt.quiet
    /\ isConverting
    /\ settled
    /\ attempt.img = 2

\* the messages validateFile can return
ValidationMessages ==
    { validateFile(file, MAX_FILE_SIZE(maxSizeEnv)) : file \in UploadFiles } \ {Null}

\* C26: a rejected upload sets the error to the validation message and
\* leaves image, preview, result, instructions, isConverting and the copy
\* acknowledgment as they were; it starts no file read.
C26_RejectChangesOnlyError ==
    [][ hist'.op = "uploadRejected"
          => /\ error' \in ValidationMessages
             /\ UNCHANGED <<image, imagePreview, latexCode, instructions,
                            isConverting, copySuccess, readers>> ]_vars

\* a file rejected while an image, its preview, a result, instructions and
\* an acknowledgment are present
C26_Witness ==
    /\ hist.op = "uploadRejected"
    /\ error = MsgBadFormat
    /\ image.id /= 0
    /\ imagePreview = image.id
    /\ latexCode /= << >>
    /\ instructions /= << >>
    /\ copySuccess

====
